---- MODULE Spec2Model ----
(***************************************************************************)
(* Model of main.cpp (cpp17_learn): the demonstration routines and the     *)
(* driver main().  `int' is a 32-bit two's-complement integer; signed      *)
(* overflow, the read through an end iterator, the read of an              *)
(* uninitialised heap cell and modulo by zero are undefined behaviour and  *)
(* are modelled as a choice among the outcomes a build can produce.        *)
(***************************************************************************)
EXTENDS Integers, Sequences, FiniteSets, TLC

VARIABLES pc, randState, heap, testVectorA, testVectorB, out, returnedValue,
          derefs, calls

vars == <<pc, randState, heap, testVectorA, testVectorB, out, returnedValue,
          derefs, calls>>

(***************************************************************************)
(* Bounds of the model.                                                    *)
(***************************************************************************)
MaxSeed == 2
MaxLen == 2
MaxArity == 3
MaxCalls == 2

(***************************************************************************)
(* The type int.                                                           *)
(***************************************************************************)
INT_MAX == 2147483647
INT_MIN == (-2147483647) - 1

AddOverflows(a, b) ==
    \/ b > 0 /\ a > INT_MAX - b
    \/ b < 0 /\ a < INT_MIN - b

\* a + b reduced modulo 2^32 into [INT_MIN, INT_MAX], computed without
\* leaving that range on the way.
WrapAdd(a, b) ==
    IF b > 0 /\ a > INT_MAX - b THEN (a + INT_MIN) + (b + INT_MIN)
    ELSE IF b < 0 /\ a < INT_MIN - b THEN ((a + INT_MAX) + 1) + ((b + INT_MAX) + 1)
    ELSE a + b

(***************************************************************************)
(* rand(): a pseudo-random generator that is never seeded by the program.  *)
(* Its state is randState; the implementation's stream is unknown, so the  *)
(* initial state is drawn from Seeds.                                      *)
(***************************************************************************)
RAND_MAX == 32767
RandPeriod == 64
Seeds == 0 .. MaxSeed

RandNext(s) == (s * 5 + 3) % RandPeriod
RandTable == <<0, RAND_MAX, 41, 18467, 6334, 26500, 19169, 15724,
               11478, 29358, 26962, 24464, 5705, 28145, 23281, 16827>>
rand(s) == RandTable[(RandNext(s) % Len(RandTable)) + 1]

(***************************************************************************)
(* Output: one record per item written to cout.                            *)
(***************************************************************************)
Line(tag, vals, text) == [tag |-> tag, vals |-> vals, text |-> text]

(***************************************************************************)
(* generate_vector (lines 19-23).                                          *)
(***************************************************************************)
RECURSIVE GenerateInclusive(_, _, _, _)
\* Variant: the bound is taken as inclusive.
GenerateInclusive(vec, i, rangeVal, s) ==
    IF i > Len(vec) THEN [vec |-> vec, rand |-> s]
    ELSE GenerateInclusive([vec EXCEPT ![i] = rand(s) % (rangeVal + 1)], i + 1, rangeVal,
                           RandNext(s))

RECURSIVE Generate(_, _, _, _)
\* std::generate over positions i .. Len(vec) of a vector, calling
\* rand() % rangeVal once per position, front to back.
Generate(vec, i, rangeVal, s) ==
    IF i > Len(vec) THEN [vec |-> vec, rand |-> s]
    ELSE Generate([vec EXCEPT ![i] = rand(s) % rangeVal], i + 1, rangeVal, RandNext(s))

generate_vector(sizeVal, rangeVal, s) ==
    Generate([i \in 1 .. sizeVal |-> 0], 1, rangeVal, s)

(***************************************************************************)
(* The heap.  Each allocation site has one cell.                           *)
(***************************************************************************)
AllocIds == {"newPtr", "testVectorA", "testVectorB", "ptr"}
Unallocated == [st |-> "unallocated", init |-> FALSE, val |-> 0]
EmptyHeap == [a \in AllocIds |-> Unallocated]

Allocate(h, a, init, v) == [h EXCEPT ![a] = [st |-> "live", init |-> init, val |-> v]]

\* Variant: the release is forgotten.
ReleaseForgotten(h, a) == h

Release(h, a) ==
    [h EXCEPT ![a].st = IF h[a].st = "live" THEN "freed" ELSE "double_freed"]

(***************************************************************************)
(* max_element and compare_values (lines 48-55).                           *)
(***************************************************************************)
RECURSIVE MaxScanLast(_, _, _)
\* Variant: largest is moved on equal elements too.
MaxScanLast(vec, largest, first) ==
    IF first > Len(vec) THEN largest
    ELSE MaxScanLast(vec, IF vec[largest] <= vec[first] THEN first ELSE largest, first + 1)

RECURSIVE MaxScan(_, _, _)
\* The loop of std::max_element: largest is moved only when the element
\* under first is strictly greater.
MaxScan(vec, largest, first) ==
    IF first > Len(vec) THEN largest
    ELSE MaxScan(vec, IF vec[largest] < vec[first] THEN first ELSE largest, first + 1)

\* Variant: the iterator returned is one past the maximum.
max_elementOnePast(vec) ==
    IF Len(vec) = 0 THEN Len(vec) + 1 ELSE MaxScan(vec, 1, 2) + 1

\* Position (1-based) returned by max_element; Len(vec) + 1 is end().
max_element(vec) ==
    IF Len(vec) = 0 THEN Len(vec) + 1 ELSE MaxScan(vec, 1, 2)

GarbageVals == {0, -1, 7}

\* Outcomes of evaluating *it for the iterator at 1-based position it.
Deref(vec, it) ==
    IF it \in DOMAIN vec THEN {[ok |-> TRUE, v |-> vec[it]]}
    ELSE {[ok |-> TRUE, v |-> g] : g \in GarbageVals} \cup {[ok |-> FALSE, v |-> 0]}

Access(name, vec, it) == [vec |-> name, pos |-> it - 1, len |-> Len(vec)]

\* The outcomes of compare_values: the lines written, the iterator
\* positions dereferenced, and whether the call was cut short by a trap.
compare_values(vecA, vecB) ==
    LET itA == max_element(vecA)
        itB == max_element(vecB)
        accA == Access("A", vecA, itA)
        accB == Access("B", vecB, itB)
        lineA(r) == Line("Max element of Vector A", <<r.v, itA - 1>>, "")
        lineB(r) == Line("Max element of Vector B", <<r.v, itB - 1>>, "")
    IN  {[lines |-> <<>>, derefs |-> <<accA>>, aborted |-> TRUE] :
            rA \in {r \in Deref(vecA, itA) : ~r.ok}}
        \cup
        UNION {{[lines |-> <<lineA(rA)>>, derefs |-> <<accA, accB>>, aborted |-> TRUE] :
                  rB \in {r \in Deref(vecB, itB) : ~r.ok}} :
               rA \in {r \in Deref(vecA, itA) : r.ok}}
        \cup
        UNION {{[lines |-> <<lineA(rA), lineB(rB)>>, derefs |-> <<accA, accB>>,
                 aborted |-> FALSE] :
                  rB \in {r \in Deref(vecB, itB) : r.ok}} :
               rA \in {r \in Deref(vecA, itA) : r.ok}}

(***************************************************************************)
(* print_vec (lines 26-29) and generate_constexpr_lambda (lines 62-75).    *)
(***************************************************************************)
print_vec(heading, vec) == Line(heading, vec, "")

\* Variant: the multiplier is 4.
multiplyByFour(someVal) ==
    [val |-> WrapAdd(WrapAdd(someVal, someVal), WrapAdd(someVal, someVal)),
     ub  |-> someVal > INT_MAX \div 4 \/ someVal < -(INT_MAX \div 4)]

\* someVal * 5 on int: the product as five-fold addition modulo 2^32, and
\* whether the mathematical product leaves the range of int.
multiplyByFive(someVal) ==
    LET w2 == WrapAdd(someVal, someVal)
        w4 == WrapAdd(w2, w2)
    IN  [val |-> WrapAdd(w4, someVal),
         ub  |-> someVal > INT_MAX \div 5 \/ someVal < -(INT_MAX \div 5)]

\* Positions whose product overflows.
Overflowing(vec) == {i \in DOMAIN vec : multiplyByFive(vec[i]).ub}

FirstOverflow(vec) == CHOOSE i \in Overflowing(vec) : \A j \in Overflowing(vec) : i <= j

\* Variant: the last element is left out of the range transformed.
transformAllButLast(vec) ==
    [i \in DOMAIN vec |-> IF i < Len(vec) THEN multiplyByFive(vec[i]).val ELSE vec[i]]

\* std::transform(begin, end, begin, multiplyByFive) run to completion.
transform(vec) == [i \in DOMAIN vec |-> multiplyByFive(vec[i]).val]

\* std::transform stopped by a trap at the first overflowing product.
transformTrapped(vec) ==
    [i \in DOMAIN vec |-> IF i < FirstOverflow(vec) THEN multiplyByFive(vec[i]).val ELSE vec[i]]

\* The outcomes of generate_constexpr_lambda(vec).
generate_constexpr_lambda(vec) ==
    LET before == print_vec("Values in vector before transforming", vec)
        after  == print_vec("Values in vector after transforming", transform(vec))
    IN  {[vec |-> transform(vec), lines |-> <<before, after>>, aborted |-> FALSE]}
        \cup
        (IF Overflowing(vec) = {} THEN {}
         ELSE {[vec |-> transformTrapped(vec), lines |-> <<before>>, aborted |-> TRUE]})

(***************************************************************************)
(* stringview_func (lines 88-94).                                          *)
(***************************************************************************)
contents == <<"Some words", "More words", "Another string!">>

stringview_func ==
    <<Line("String View tester", <<>>, "")>> \o
    [i \in 1 .. 3 |-> Line("string_view", <<>>, contents[i])]

(***************************************************************************)
(* sum_numbers (lines 115-118): the unary right fold (values + ...).       *)
(***************************************************************************)
\* v + r in int, where r is the result of the sum folded so far: val is the
\* sum modulo 2^32, ub says that some partial sum overflowed.
AddTo(v, r) == [val |-> WrapAdd(v, r.val), ub |-> r.ub \/ AddOverflows(v, r.val)]

RECURSIVE FoldLeft(_)
\* Variant: the left fold (... + values).
FoldLeft(values) ==
    IF Len(values) = 1 THEN [val |-> values[1], ub |-> FALSE]
    ELSE CHOOSE s \in {[val |-> WrapAdd(l.val, values[Len(values)]),
                        ub |-> l.ub \/ AddOverflows(l.val, values[Len(values)])] :
                          l \in {FoldLeft(SubSeq(values, 1, Len(values) - 1))}} : TRUE

RECURSIVE FoldRight(_)
\* v1 + (v2 + (... + vn)): the innermost sum is of the last two values.
\* The inner sum is evaluated once and then added to.
FoldRight(values) ==
    IF Len(values) = 1 THEN [val |-> values[1], ub |-> FALSE]
    ELSE CHOOSE s \in {AddTo(values[1], r) : r \in {FoldRight(Tail(values))}} : TRUE

\* The outcomes of sum_numbers(values...): the value, or a trap when a
\* partial sum overflows.
sum_numbers(values) ==
    {[val |-> FoldRight(values).val, aborted |-> FALSE]}
    \cup
    (IF FoldRight(values).ub THEN {[val |-> 0, aborted |-> TRUE]} ELSE {})

(***************************************************************************)
(* createObj, bindings_example_2 and if_init (lines 139-168).              *)
(***************************************************************************)
createObj == [memA |-> 5, memB |-> "C"]

bindings_example_2 ==
    LET first == createObj.memA
        second == createObj.memB
    IN  <<Line("Class contains", <<>>, ""), Line("members", <<first>>, second)>>

if_init ==
    LET first == createObj.memA
    IN  IF first # 6 THEN <<Line("if_init", <<>>, "Value was not 6")>>
        ELSE <<Line("if_init", <<>>, "Value was 6")>>

(***************************************************************************)
(* if_constexpr_func (lines 177-187).  An argument is a record: whether    *)
(* its static type is a pointer type, the cell it points to, and its value *)
(* when it is not a pointer.                                               *)
(***************************************************************************)
PtrVals == {0, 4096}

PointerArg(a) == [is_pointer |-> TRUE, addr |-> a, value |-> 0]
ValueArg(v) == [is_pointer |-> FALSE, addr |-> "", value |-> v]

\* Outcomes of reading the cell a: its value when it is live and
\* initialised, any value when it is live and uninitialised, any value or
\* a trap when it is not live.
ReadCell(h, a) ==
    IF h[a].st = "live" /\ h[a].init THEN {[ok |-> TRUE, v |-> h[a].val]}
    ELSE IF h[a].st = "live" THEN {[ok |-> TRUE, v |-> g] : g \in PtrVals}
    ELSE {[ok |-> TRUE, v |-> g] : g \in PtrVals} \cup {[ok |-> FALSE, v |-> 0]}

\* Variant: the argument is returned as it is, whatever its type.
if_constexpr_funcNoBranch(ptrCheck, h) ==
    {[lines |-> <<Line("if_constexpr_func", <<>>, "is not a pointer!")>>,
      ret |-> ptrCheck.value, derefs |-> <<>>, aborted |-> FALSE]}

if_constexpr_func(ptrCheck, h) ==
    IF ptrCheck.is_pointer
    THEN {[lines |-> <<Line("if_constexpr_func", <<>>, "is a pointer!")>>,
           ret |-> r.v,
           derefs |-> <<[vec |-> ptrCheck.addr, pos |-> 0,
                         len |-> IF h[ptrCheck.addr].st = "live" THEN 1 ELSE 0]>>,
           aborted |-> ~r.ok] : r \in ReadCell(h, ptrCheck.addr)}
    ELSE {[lines |-> <<Line("if_constexpr_func", <<>>, "is not a pointer!")>>,
           ret |-> ptrCheck.value, derefs |-> <<>>, aborted |-> FALSE]}

(***************************************************************************)
(* Namespaces A and A::B, printFoos (lines 195-210).                       *)
(***************************************************************************)
A_foo == "I am an A foo!"
A_B_foo == "I am a B foo!"

\* Variant: the two calls are in the other order.
printFoosSwapped == <<Line("printFoos", <<>>, A_B_foo), Line("printFoos", <<>>, A_foo)>>

printFoos == <<Line("printFoos", <<>>, A_foo), Line("printFoos", <<>>, A_B_foo)>>

(***************************************************************************)
(* main (lines 213-240), one action per statement.                         *)
(***************************************************************************)
VecSize == 10
VecRange == 100

MainInit ==
    /\ pc = "generate_pointer"
    /\ randState \in Seeds
    /\ heap = EmptyHeap
    /\ testVectorA = <<>>
    /\ testVectorB = <<>>
    /\ out = <<>>
    /\ returnedValue = 0
    /\ derefs = <<>>
    /\ calls = <<>>

\* line 214: auto newPtr = generate_pointer<double>();
MainGeneratePointer ==
    /\ pc = "generate_pointer"
    /\ heap' = Allocate(heap, "newPtr", TRUE, 0)
    /\ pc' = "generate_vector_A"
    /\ UNCHANGED <<randState, testVectorA, testVectorB, out, returnedValue, derefs, calls>>

\* line 216: auto testVectorA = generate_vector(10, 100);
MainGenerateVectorA ==
    /\ pc = "generate_vector_A"
    /\ LET g == generate_vector(VecSize, VecRange, randState)
       IN  /\ testVectorA' = g.vec
           /\ randState' = g.rand
    /\ heap' = Allocate(heap, "testVectorA", TRUE, 0)
    /\ pc' = "generate_vector_B"
    /\ UNCHANGED <<testVectorB, out, returnedValue, derefs, calls>>

\* line 217: auto testVectorB = generate_vector(10, 100);
MainGenerateVectorB ==
    /\ pc = "generate_vector_B"
    /\ LET g == generate_vector(VecSize, VecRange, randState)
       IN  /\ testVectorB' = g.vec
           /\ randState' = g.rand
    /\ heap' = Allocate(heap, "testVectorB", TRUE, 0)
    /\ pc' = "compare_values"
    /\ UNCHANGED <<testVectorA, out, returnedValue, derefs, calls>>

\* line 218: compare_values(testVectorA, testVectorB);
MainCompareValues ==
    /\ pc = "compare_values"
    /\ \E o \in compare_values(testVectorA, testVectorB) :
          /\ out' = out \o o.lines
          /\ derefs' = o.derefs
          /\ pc' = IF o.aborted THEN "aborted" ELSE "generate_constexpr_lambda"
    /\ UNCHANGED <<randState, heap, testVectorA, testVectorB, returnedValue, calls>>

\* Variant: the other vector is the one passed.
MainGenerateConstexprLambdaOnB ==
    /\ pc = "generate_constexpr_lambda"
    /\ \E o \in generate_constexpr_lambda(testVectorB) :
          /\ testVectorB' = o.vec
          /\ out' = out \o o.lines
          /\ pc' = IF o.aborted THEN "aborted" ELSE "stringview_func"
    /\ UNCHANGED <<randState, heap, testVectorA, returnedValue, derefs, calls>>

\* line 220: generate_constexpr_lambda(testVectorA);
MainGenerateConstexprLambda ==
    /\ pc = "generate_constexpr_lambda"
    /\ \E o \in generate_constexpr_lambda(testVectorA) :
          /\ testVectorA' = o.vec
          /\ out' = out \o o.lines
          /\ pc' = IF o.aborted THEN "aborted" ELSE "stringview_func"
    /\ UNCHANGED <<randState, heap, testVectorB, returnedValue, derefs, calls>>

\* line 222: stringview_func();
MainStringviewFunc ==
    /\ pc = "stringview_func"
    /\ out' = out \o stringview_func
    /\ pc' = "build_arrays"
    /\ UNCHANGED <<randState, heap, testVectorA, testVectorB, returnedValue, derefs, calls>>

\* line 224: build_arrays(); two local arrays, no output.
MainBuildArrays ==
    /\ pc = "build_arrays"
    /\ pc' = "sum_numbers"
    /\ UNCHANGED <<randState, heap, testVectorA, testVectorB, out, returnedValue, derefs, calls>>

\* line 226: cout << endl << sum_numbers(4, 6, 33, 7, 3, 4, 5) << endl;
MainSumNumbers ==
    /\ pc = "sum_numbers"
    /\ \E o \in sum_numbers(<<4, 6, 33, 7, 3, 4, 5>>) :
          /\ out' = IF o.aborted THEN out ELSE Append(out, Line("sum_numbers", <<o.val>>, ""))
          /\ pc' = IF o.aborted THEN "aborted" ELSE "bindings_example"
    /\ UNCHANGED <<randState, heap, testVectorA, testVectorB, returnedValue, derefs, calls>>

\* line 228: bindings_example(); two local tuples, no output.
MainBindingsExample ==
    /\ pc = "bindings_example"
    /\ pc' = "bindings_example_2"
    /\ UNCHANGED <<randState, heap, testVectorA, testVectorB, out, returnedValue, derefs, calls>>

\* line 230: bindings_example_2();
MainBindingsExample2 ==
    /\ pc = "bindings_example_2"
    /\ out' = out \o bindings_example_2
    /\ pc' = "if_init"
    /\ UNCHANGED <<randState, heap, testVectorA, testVectorB, returnedValue, derefs, calls>>

\* line 232: if_init();
MainIfInit ==
    /\ pc = "if_init"
    /\ out' = out \o if_init
    /\ pc' = "new_ptr"
    /\ UNCHANGED <<randState, heap, testVectorA, testVectorB, returnedValue, derefs, calls>>

\* line 234: auto ptr = new int*;  the pointee is left uninitialised.
MainNewPtr ==
    /\ pc = "new_ptr"
    /\ heap' = Allocate(heap, "ptr", FALSE, 0)
    /\ pc' = "if_constexpr_func"
    /\ UNCHANGED <<randState, testVectorA, testVectorB, out, returnedValue, derefs, calls>>

\* line 235: auto returnedValue = if_constexpr_func(ptr);
MainIfConstexprFunc ==
    /\ pc = "if_constexpr_func"
    /\ \E o \in if_constexpr_func(PointerArg("ptr"), heap) :
          /\ out' = out \o o.lines
          /\ returnedValue' = o.ret
          /\ derefs' = o.derefs
          /\ pc' = IF o.aborted THEN "aborted" ELSE "delete_ptr"
    /\ UNCHANGED <<randState, heap, testVectorA, testVectorB, calls>>

\* line 236: delete ptr;
MainDeletePtr ==
    /\ pc = "delete_ptr"
    /\ heap' = Release(heap, "ptr")
    /\ pc' = "printFoos"
    /\ UNCHANGED <<randState, testVectorA, testVectorB, out, returnedValue, derefs, calls>>

\* line 238: printFoos();
MainPrintFoos ==
    /\ pc = "printFoos"
    /\ out' = out \o printFoos
    /\ pc' = "return"
    /\ UNCHANGED <<randState, heap, testVectorA, testVectorB, returnedValue, derefs, calls>>

\* line 240: the closing brace destroys testVectorB, testVectorA and newPtr.
MainReturn ==
    /\ pc = "return"
    /\ heap' = Release(Release(Release(heap, "testVectorB"), "testVectorA"), "newPtr")
    /\ pc' = "done"
    /\ UNCHANGED <<randState, testVectorA, testVectorB, out, returnedValue, derefs, calls>>

MainNext ==
    \/ MainGeneratePointer
    \/ MainGenerateVectorA
    \/ MainGenerateVectorB
    \/ MainCompareValues
    \/ MainGenerateConstexprLambda
    \/ MainStringviewFunc
    \/ MainBuildArrays
    \/ MainSumNumbers
    \/ MainBindingsExample
    \/ MainBindingsExample2
    \/ MainIfInit
    \/ MainNewPtr
    \/ MainIfConstexprFunc
    \/ MainDeletePtr
    \/ MainPrintFoos
    \/ MainReturn

(***************************************************************************)
(* Calls of the routines on inputs other than those main passes.  The      *)
(* inputs are drawn from the sets below; calls records each call made.     *)
(***************************************************************************)
SeqsUpTo(S, n) == UNION {[1 .. k -> S] : k \in 0 .. n}

BigVal == (INT_MAX \div 5) + 1
InputVals == {-7, 0, 3, 7, 100000000, BigVal}
CompareVals == {-7, 3, 7}
Ranges == {0, 1, 2, 100}
SumVals == {-1, 1, 4, INT_MAX}

CompareVecs == SeqsUpTo(CompareVals, MaxLen) \cup {<<3, 7, 2, 7, 1>>}
TransformVecs == SeqsUpTo(InputVals, MaxLen) \cup {<<1, 2, 3>>}
SumArgs == (SeqsUpTo(SumVals, MaxArity) \ {<<>>}) \cup {<<4, 6, 33, 7, 3, 4, 5>>}

Call(fn, args, ret, aborted) == [fn |-> fn, args |-> args, ret |-> ret, aborted |-> aborted]

\* Where control is after a call: stopped by a trap, ready for another
\* call of the same routine, or finished.
AfterCall(again, aborted) ==
    IF aborted THEN "call_aborted"
    ELSE IF Len(calls) + 1 < MaxCalls THEN again
    ELSE "returned"

CallInit ==
    /\ out = <<>>
    /\ returnedValue = 0
    /\ derefs = <<>>
    /\ calls = <<>>
    /\ \/ /\ pc = "call_generate_vector"
          /\ randState \in 0 .. RandPeriod - 1
          /\ heap = EmptyHeap
          /\ testVectorA = <<>>
          /\ testVectorB = <<>>
       \/ /\ pc = "call_compare_values"
          /\ randState = 0
          /\ heap = EmptyHeap
          /\ testVectorA \in CompareVecs
          /\ testVectorB \in CompareVecs
       \/ /\ pc = "call_generate_constexpr_lambda"
          /\ randState = 0
          /\ heap = EmptyHeap
          /\ testVectorA \in TransformVecs
          /\ testVectorB \in {<<>>, <<3, 7>>}
       \/ /\ pc = "call_sum_numbers"
          /\ randState = 0
          /\ heap = EmptyHeap
          /\ testVectorA = <<>>
          /\ testVectorB = <<>>
       \/ /\ pc = "call_if_constexpr_func"
          /\ randState = 0
          /\ heap \in {Allocate(EmptyHeap, "ptr", TRUE, v) : v \in PtrVals}
                      \cup {Allocate(EmptyHeap, "ptr", FALSE, 0),
                            Release(Allocate(EmptyHeap, "ptr", TRUE, 0), "ptr")}
          /\ testVectorA = <<>>
          /\ testVectorB = <<>>

\* generate_vector(sizeVal, rangeVal); rand() % 0 traps.
CallGenerateVector ==
    /\ pc = "call_generate_vector"
    /\ \E sizeVal \in 0 .. MaxLen, rangeVal \in Ranges :
          IF rangeVal = 0 /\ sizeVal > 0
          THEN /\ pc' = AfterCall("call_generate_vector", TRUE)
               /\ calls' = Append(calls, Call("generate_vector", <<sizeVal, rangeVal>>, <<>>, TRUE))
               /\ UNCHANGED <<testVectorA, randState>>
          ELSE LET g == generate_vector(sizeVal, rangeVal, randState)
               IN  /\ testVectorA' = g.vec
                   /\ randState' = g.rand
                   /\ calls' = Append(calls, Call("generate_vector", <<sizeVal, rangeVal>>, g.vec, FALSE))
                   /\ pc' = AfterCall("call_generate_vector", FALSE)
    /\ UNCHANGED <<heap, testVectorB, out, returnedValue, derefs>>

CallCompareValues ==
    /\ pc = "call_compare_values"
    /\ \E o \in compare_values(testVectorA, testVectorB) :
          /\ out' = o.lines
          /\ derefs' = o.derefs
          /\ calls' = Append(calls, Call("compare_values", <<testVectorA, testVectorB>>, <<>>, o.aborted))
          /\ pc' = AfterCall("returned", o.aborted)
    /\ UNCHANGED <<randState, heap, testVectorA, testVectorB, returnedValue>>

CallGenerateConstexprLambda ==
    /\ pc = "call_generate_constexpr_lambda"
    /\ \E o \in generate_constexpr_lambda(testVectorA) :
          /\ testVectorA' = o.vec
          /\ out' = o.lines
          /\ calls' = Append(calls, Call("generate_constexpr_lambda", testVectorA, o.vec, o.aborted))
          /\ pc' = AfterCall("call_generate_constexpr_lambda", o.aborted)
    /\ UNCHANGED <<randState, heap, testVectorB, returnedValue, derefs>>

CallSumNumbers ==
    /\ pc = "call_sum_numbers"
    /\ \E values \in SumArgs :
          \E o \in sum_numbers(values) :
             /\ calls' = Append(calls, Call("sum_numbers", values, o.val, o.aborted))
             /\ pc' = AfterCall("returned", o.aborted)
    /\ UNCHANGED <<randState, heap, testVectorA, testVectorB, out, returnedValue, derefs>>

CallIfConstexprFunc ==
    /\ pc = "call_if_constexpr_func"
    /\ \E ptrCheck \in {PointerArg("ptr")} \cup {ValueArg(v) : v \in {0, 5}} :
          \E o \in if_constexpr_func(ptrCheck, heap) :
             /\ out' = o.lines
             /\ derefs' = o.derefs
             /\ calls' = Append(calls, Call("if_constexpr_func", ptrCheck, o.ret, o.aborted))
             /\ pc' = AfterCall("returned", o.aborted)
    /\ UNCHANGED <<randState, heap, testVectorA, testVectorB, returnedValue>>

CallNext ==
    \/ CallGenerateVector
    \/ CallCompareValues
    \/ CallGenerateConstexprLambda
    \/ CallSumNumbers
    \/ CallIfConstexprFunc

(***************************************************************************)
(* Specifications.                                                         *)
(***************************************************************************)
Init == MainInit \/ CallInit

Next == MainNext \/ CallNext

Spec == Init /\ [][Next]_vars

\* main runs without suspension points: a statement that can run does.
FairSpec == Spec /\ WF_vars(MainNext)

(***************************************************************************)
(* Properties.                                                             *)
(***************************************************************************)
MainPcs == {"generate_pointer", "generate_vector_A", "generate_vector_B",
            "compare_values", "generate_constexpr_lambda", "stringview_func",
            "build_arrays", "sum_numbers", "bindings_example",
            "bindings_example_2", "if_init", "new_ptr", "if_constexpr_func",
            "delete_ptr", "printFoos", "return", "done", "aborted"}

InMain == pc \in MainPcs

\* The call just made, when the routine fn was the one called.
Called(fn) == calls # <<>> /\ calls[Len(calls)].fn = fn
LastCall == calls[Len(calls)]

HasLength(vec, n) == Len(vec) = n
WithinBound(vec, bound) == \A i \in DOMAIN vec : 0 <= vec[i] /\ vec[i] < bound

\* C1: for every length >= 0 and bound > 0, generate_vector returns exactly
\* `length' elements, each at least 0 and less than bound; in main both
\* vectors have 10 elements below 100.
Thm_C1_GeneratorLengthAndRange ==
    /\ \A i \in DOMAIN calls :
          (calls[i].fn = "generate_vector" /\ calls[i].args[2] > 0) =>
             /\ ~calls[i].aborted
             /\ HasLength(calls[i].ret, calls[i].args[1])
             /\ WithinBound(calls[i].ret, calls[i].args[2])
    /\ pc \in {"generate_vector_B", "compare_values"} =>
          HasLength(testVectorA, VecSize) /\ WithinBound(testVectorA, VecRange)
    /\ pc = "compare_values" =>
          HasLength(testVectorB, VecSize) /\ WithinBound(testVectorB, VecRange)

Wit_C1_GeneratedFullVector ==
    /\ Called("generate_vector")
    /\ LastCall.args[2] = 100
    /\ Len(LastCall.ret) >= 2
    /\ \E i \in DOMAIN LastCall.ret : LastCall.ret[i] > 1

\* The line reports value v at zero-based position p of vec: vec holds v
\* at p, nothing greater anywhere, and no v before p.
ReportsFirstMaximum(line, vec) ==
    LET v == line.vals[1]
        p == line.vals[2]
    IN  /\ p \in 0 .. Len(vec) - 1
        /\ vec[p + 1] = v
        /\ \A i \in DOMAIN vec : vec[i] <= v
        /\ \A i \in 1 .. p : vec[i] # v

\* C2: for two non-empty sequences, of equal length or not, compare_values
\* reports for each the maximum and the zero-based position of its first
\* occurrence; for [3, 7, 2, 7, 1] it reports 7 at position 1.
Thm_C2_FirstMaximumReported ==
    /\ (Called("compare_values") /\ testVectorA # <<>> /\ testVectorB # <<>>) =>
          /\ ~LastCall.aborted
          /\ Len(out) = 2
          /\ out[1].tag = "Max element of Vector A"
          /\ out[2].tag = "Max element of Vector B"
          /\ ReportsFirstMaximum(out[1], testVectorA)
          /\ ReportsFirstMaximum(out[2], testVectorB)
          /\ testVectorA = <<3, 7, 2, 7, 1>> => out[1].vals = <<7, 1>>
    /\ pc = "generate_constexpr_lambda" =>
          /\ ReportsFirstMaximum(out[1], testVectorA)
          /\ ReportsFirstMaximum(out[2], testVectorB)

Wit_C2_TieAndUnequalLengths ==
    /\ Called("compare_values")
    /\ testVectorA = <<3, 7, 2, 7, 1>>
    /\ testVectorB = <<7, 7>>
    /\ Len(out) = 2
    /\ out[2].vals = <<7, 0>>

InsideVector(d) == 0 <= d.pos /\ d.pos < d.len
AtEnd(d) == d.pos = d.len

\* C7: compare_values fails only on an empty sequence: given an empty
\* sequence it dereferences the end position and writes no error report,
\* and given two non-empty sequences every position it dereferences lies
\* in [0, length).
Thm_C7_DerefOnlyOutsideWhenEmpty ==
    /\ Called("compare_values") =>
          /\ (testVectorA # <<>> /\ testVectorB # <<>>) =>
                /\ ~LastCall.aborted
                /\ Len(derefs) = 2
                /\ \A i \in DOMAIN derefs : InsideVector(derefs[i])
          /\ (testVectorA = <<>> \/ testVectorB = <<>>) =>
                /\ \E i \in DOMAIN derefs : AtEnd(derefs[i]) /\ derefs[i].len = 0
                /\ \A i \in DOMAIN out :
                      out[i].tag \in {"Max element of Vector A", "Max element of Vector B"}
          /\ LastCall.aborted => (testVectorA = <<>> \/ testVectorB = <<>>)
    /\ pc = "generate_constexpr_lambda" =>
          /\ Len(derefs) = 2
          /\ \A i \in DOMAIN derefs : InsideVector(derefs[i])

Wit_C7_EmptySecondSequence ==
    /\ Called("compare_values")
    /\ testVectorA = <<3, 7>>
    /\ testVectorB = <<>>
    /\ Len(derefs) = 2
    /\ InsideVector(derefs[1])
    /\ AtEnd(derefs[2])

\* x * 5 and x * 25 are representable in int.
FitsTimes5(x) == x <= INT_MAX \div 5 /\ x >= -(INT_MAX \div 5)
FitsTimes25(x) == x <= INT_MAX \div 25 /\ x >= -(INT_MAX \div 25)

\* y is k times x over the integers (y and x are values of int).
IsProduct(y, x, k) == x <= INT_MAX \div k /\ x >= -(INT_MAX \div k) /\ y = k * x

ElementwiseProduct(ys, xs, k) ==
    Len(ys) = Len(xs) /\ \A i \in DOMAIN xs : IsProduct(ys[i], xs[i], k)

\* The call wrote the sequence xs under the first heading and ys under the second.
PrintedBeforeAfter(lines, xs, ys) ==
    /\ Len(lines) = 2
    /\ lines[1] = Line("Values in vector before transforming", xs, "")
    /\ lines[2] = Line("Values in vector after transforming", ys, "")

\* C3 as stated: after generate_constexpr_lambda(vec) returns, the sequence
\* has its former length and every element is 5 times what it was there.
Orig_C3_EveryElementFiveTimes ==
    (Called("generate_constexpr_lambda") /\ ~LastCall.aborted) =>
        ElementwiseProduct(testVectorA, LastCall.args, 5)

\* C3 amended: when no product 5 * element overflows int, the call returns
\* with the sequence at its former length and every element 5 times what it
\* was, and the values printed after transforming are 5 times those printed
\* before; this is the case in main, where every element is below 100.
Thm_C3_FiveTimesWhenRepresentable ==
    /\ (Called("generate_constexpr_lambda")
          /\ \A i \in DOMAIN LastCall.args : FitsTimes5(LastCall.args[i])) =>
          /\ ~LastCall.aborted
          /\ ElementwiseProduct(testVectorA, LastCall.args, 5)
          /\ PrintedBeforeAfter(out, LastCall.args, testVectorA)
    /\ pc = "stringview_func" =>
          /\ Len(out) = 4
          /\ PrintedBeforeAfter(SubSeq(out, 3, 4), out[3].vals, testVectorA)
          /\ HasLength(testVectorA, VecSize)
          /\ ElementwiseProduct(testVectorA, out[3].vals, 5)

Wit_C3_OneTwoThreeTransformed ==
    /\ Called("generate_constexpr_lambda")
    /\ LastCall.args = <<1, 2, 3>>
    /\ testVectorA = <<5, 10, 15>>
    /\ Len(out) = 2

\* C4: for every sequence whose values do not overflow, two applications of
\* the multiply-by-5 transform give the multiply-by-25 transform of it
\* ([1, 2, 3] becomes [25, 50, 75]), and the second application changes
\* nothing only when the sequence is all zeros.
Thm_C4_TwiceFiveIsTwentyFive ==
    (/\ Len(calls) = 2
     /\ calls[1].fn = "generate_constexpr_lambda"
     /\ calls[2].fn = "generate_constexpr_lambda"
     /\ \A i \in DOMAIN calls[1].args : FitsTimes25(calls[1].args[i])) =>
        /\ ~calls[1].aborted /\ ~calls[2].aborted
        /\ calls[2].args = calls[1].ret
        /\ testVectorA = calls[2].ret
        /\ ElementwiseProduct(calls[2].ret, calls[1].args, 25)
        /\ calls[1].args = <<1, 2, 3>> => calls[2].ret = <<25, 50, 75>>
        /\ (calls[2].ret = calls[1].ret) <=>
              (\A i \in DOMAIN calls[1].args : calls[1].args[i] = 0)

Wit_C4_OneTwoThreeTwice ==
    /\ Len(calls) = 2
    /\ calls[2].fn = "generate_constexpr_lambda"
    /\ calls[1].args = <<1, 2, 3>>
    /\ testVectorA = <<25, 50, 75>>

\* l + v and v + r in int, with whether every partial sum so far is representable.
SumStep(a, b, fits) == [val |-> WrapAdd(a, b), fits |-> fits /\ ~AddOverflows(a, b)]

RECURSIVE LeftSum(_)
\* ((v1 + v2) + v3) + ... + vn in int: the value, and whether every partial
\* sum is representable.
LeftSum(values) ==
    IF Len(values) = 1 THEN [val |-> values[1], fits |-> TRUE]
    ELSE CHOOSE s \in {SumStep(l.val, values[Len(values)], l.fits) :
                          l \in {LeftSum(SubSeq(values, 1, Len(values) - 1))}} : TRUE

RECURSIVE RightSum(_)
\* v1 + (v2 + (... + vn)) in int, likewise.
RightSum(values) ==
    IF Len(values) = 1 THEN [val |-> values[1], fits |-> TRUE]
    ELSE CHOOSE s \in {SumStep(values[1], r.val, r.fits) :
                          r \in {RightSum(Tail(values))}} : TRUE

SumPrinted == pc = "bindings_example" => out[Len(out)] = Line("sum_numbers", <<62>>, "")

Allocated == {a \in AllocIds : heap[a].st # "unallocated"}
NoDoubleRelease == \A a \in AllocIds : heap[a].st # "double_freed"
NoneLiveAtExit == pc = "done" => \A a \in Allocated : heap[a].st = "freed"

\* C6 as stated: the program performs one heap allocation, and every
\* allocation made is released exactly once before main terminates.
Orig_C6_OneAllocation ==
    InMain => /\ Cardinality(Allocated) <= 1
              /\ NoDoubleRelease
              /\ NoneLiveAtExit

\* C6 amended: the program performs several heap allocations, not one (the
\* double behind newPtr, the storage of the two vectors, the int* behind
\* ptr); each is released exactly once before main terminates: none is
\* released twice and none is live at termination.
Thm_C6_EveryAllocationReleasedOnce ==
    InMain => /\ NoDoubleRelease
              /\ NoneLiveAtExit
              /\ pc = "done" => Allocated = AllocIds
              /\ pc \in {"if_constexpr_func", "delete_ptr"} =>
                    heap["newPtr"].st = "live" /\ heap["ptr"].st = "live"

Wit_C6_AllReleasedAtExit ==
    /\ pc = "done"
    /\ \A a \in AllocIds : heap[a].st = "freed"

Texts(lines) == [i \in DOMAIN lines |-> lines[i].text]
Announces(lines, text) == \E i \in DOMAIN lines : lines[i].text = text

\* C8: if_constexpr_func announces 'is a pointer!' and returns *x when the
\* argument's type is a pointer type, announces 'is not a pointer!' and
\* returns x otherwise, never dereferencing a non-pointer; in main the
\* pointer branch is taken and the pointee is read while still allocated.
Thm_C8_PointerBranchByType ==
    /\ Called("if_constexpr_func") =>
          IF LastCall.args.is_pointer
          THEN /\ LastCall.aborted \/ Texts(out) = <<"is a pointer!">>
               /\ Len(derefs) = 1
               /\ derefs[1].vec = LastCall.args.addr
               /\ (heap[LastCall.args.addr].st = "live" /\ heap[LastCall.args.addr].init) =>
                     ~LastCall.aborted /\ LastCall.ret = heap[LastCall.args.addr].val
          ELSE /\ Texts(out) = <<"is not a pointer!">>
               /\ derefs = <<>>
               /\ ~LastCall.aborted
               /\ LastCall.ret = LastCall.args.value
    /\ pc \in {"delete_ptr", "printFoos", "return", "done"} =>
          /\ Announces(out, "is a pointer!")
          /\ ~Announces(out, "is not a pointer!")
          /\ derefs = <<[vec |-> "ptr", pos |-> 0, len |-> 1]>>
          /\ returnedValue \in PtrVals
    /\ pc = "delete_ptr" => heap["ptr"].st = "live"

Wit_C8_PointeeReadBeforeDelete ==
    /\ pc = "delete_ptr"
    /\ heap["ptr"].st = "live"
    /\ Len(derefs) = 1
    /\ out[Len(out)].text = "is a pointer!"

\* What main has written when it ends, after the four lines that show
\* random values.
FixedOutput ==
    <<Line("String View tester", <<>>, ""),
      Line("string_view", <<>>, "Some words"),
      Line("string_view", <<>>, "More words"),
      Line("string_view", <<>>, "Another string!"),
      Line("sum_numbers", <<62>>, ""),
      Line("Class contains", <<>>, ""),
      Line("members", <<5>>, "C"),
      Line("if_init", <<>>, "Value was not 6"),
      Line("if_constexpr_func", <<>>, "is a pointer!"),
      Line("printFoos", <<>>, "I am an A foo!"),
      Line("printFoos", <<>>, "I am a B foo!")>>

RandomHeadings ==
    <<"Max element of Vector A", "Max element of Vector B",
      "Values in vector before transforming", "Values in vector after transforming">>

OutputInOrder ==
    pc = "done" =>
       /\ Len(out) = 4 + Len(FixedOutput)
       /\ [i \in 1 .. 4 |-> out[i].tag] = RandomHeadings
       /\ SubSeq(out, 5, Len(out)) = FixedOutput

\* C9: every run of main terminates, having written its lines in the one
\* fixed order; all lines but the two maximum lines and the two lines of
\* vector contents are the same in every run.
Thm_C9_TerminatesWithFixedOutputOrder ==
    /\ (pc = "generate_pointer") ~> (pc = "done")
    /\ [](InMain => pc # "aborted")
    /\ []OutputInOrder

Wit_C9_MainDone ==
    /\ pc = "done"
    /\ Len(out) = 15
    /\ out[15].text = "I am a B foo!"

ComparePcs == {"compare_values", "call_compare_values"}
LambdaPcs == {"generate_constexpr_lambda", "call_generate_constexpr_lambda"}

\* C10: compare_values leaves both sequences as they were, and the in-place
\* transform leaves every sequence but the one passed to it as it was: in
\* main vector B is the same before and after
\* generate_constexpr_lambda(testVectorA), and the values printed before
\* transforming are the generated vector A whose maximum was reported.
Thm_C10_OnlyTransformedVectorChanges ==
    /\ [][/\ pc \in ComparePcs =>
                testVectorA' = testVectorA /\ testVectorB' = testVectorB
          /\ pc \in LambdaPcs => testVectorB' = testVectorB
          /\ pc = "generate_constexpr_lambda" =>
                out'[Len(out) + 1] = print_vec("Values in vector before transforming", testVectorA)
          /\ pc = "call_generate_constexpr_lambda" =>
                out'[1] = print_vec("Values in vector before transforming", testVectorA)]_vars
    /\ [](pc = "stringview_func" =>
             /\ ReportsFirstMaximum(out[1], out[3].vals)
             /\ HasLength(out[3].vals, VecSize)
             /\ WithinBound(out[3].vals, VecRange)
             /\ HasLength(testVectorB, VecSize)
             /\ WithinBound(testVectorB, VecRange)
             /\ ReportsFirstMaximum(out[2], testVectorB))

Wit_C10_AfterTransformInMain ==
    /\ pc = "stringview_func"
    /\ testVectorA # out[3].vals
    /\ ReportsFirstMaximum(out[2], testVectorB)

====
